---------------------------- MODULE Spec2Model ----------------------------
(***************************************************************************)
(* MinReporter (src/MinReporter.py): a clan's members are fetched, each    *)
(* member's recent activities and the rosters of those activities are      *)
(* collected, and a counting pass builds, per member, how often each other *)
(* clan member was met (with inferred counts for private members).         *)
(*                                                                         *)
(* Spec      the run of the script's __main__ block.                       *)
(* SpecCount the loop of line 268 (the counting passes), started from the  *)
(*           states in which the loop of line 264 leaves the script.       *)
(* SpecTwice SpecCount, after which Member.recent_clanmates is invoked     *)
(*           again on a member already counted.                            *)
(* SpecUnit  single calls of Character.recent_activities and               *)
(*           Member.players_in_activity on responses drawn from bounded    *)
(*           sets.                                                         *)
(* SpecSend  one call of BungieApi.async_send, request by request, with    *)
(*           its retries.                                                  *)
(*                                                                         *)
(* Modelling decisions:                                                    *)
(*  - member ids are 1..NumMembers, in the order of the member list;       *)
(*    id 0 (Stranger) is a participant who is no clan member.              *)
(*  - a timestamp ("period") is an integer count of half days; Now is the  *)
(*    value of datetime.now(), taken as fixed during a run.                *)
(*  - a Python dict whose order matters (activities) is a sequence of      *)
(*    [id, period] records in insertion order; player_relationships is a   *)
(*    function whose domain is the set of keys.                            *)
(*  - in the run BungieApi.async_send is seen by its outcome: a parsed     *)
(*    response, or the terminal error after the retries are used up        *)
(*    ("TerminalError": line 35 awaits the value of print, which raises    *)
(*    before the ValueError of line 36 is reached; either way an exception *)
(*    leaves async_send).  SpecSend follows the call request by request.   *)
(*  - the data source's answers are bounded over a whole run: at most      *)
(*    MaxRunActivities activities are kept and MaxRunPlayers participants  *)
(*    extracted, over all members.                                         *)
(*  - asyncio.gather starts every coroutine of a batch before any response *)
(*    is delivered: the first step of every task (up to its first await)   *)
(*    is part of the action that starts the batch; responses then arrive   *)
(*    in any order.                                                        *)
(***************************************************************************)
EXTENDS Integers, Sequences, FiniteSets

\* ------------------------------------------------------------------ bounds
NumMembers == 2

MaxChars == 2

MaxActs == 2

MaxRoster == 2

MaxRunActivities == 2

MaxRunPlayers == 2

MaxCountPlayers == 3

MaxPasses == 2

MaxUnitActs == 2

MaxUnitDays == 1

\* SpecSend: the request paths and the JSON bodies a response may carry
MaxPaths == 3

MaxBodies == 2

\* --------------------------------------------------------- program values
\* default of the relevant_days parameter (recent_players_and_activities)
DefaultRelevantDays == 7

\* async_send(self, path, retries=5, ...)
DefaultRetries == 5

\* datetime.now(), in half days
Now == 20

\* timedelta.days: whole days of a difference counted in half days
HalfDaysPerDay == 2

Members == 1..NumMembers

Stranger == 0

PlayerIds == {Stranger} \cup Members

ActivityIds == 1..MaxActs

\* member_json['destinyUserInfo']['displayName'] of member m
DisplayName(m) == <<"displayName", m>>

\* --------------------------------------------------------------- responses
\* activity['period'] values the data source reports in a run: activities
\* that are 8 days, 7 and a half days (7 whole days) and 0 days old
RunPeriods == {Now - 8 * HalfDaysPerDay, Now - 7 * HalfDaysPerDay - 1, Now}

\* the values of args.relevant_days a run may be started with
RelevantDaysArgs == {DefaultRelevantDays - 1, DefaultRelevantDays}

ErrorStatuses == {"absent", "Success", "DestinyPrivacyRestriction"}

\* 'Response' missing, present but empty (falsy), or carrying 'activities'
ResponseShapes == {"absent", "empty", "activities"}

\* a roster entry: the first key missing on the way to the identity, or "ok"
EntryShapes == {"noPlayer", "noDestinyUserInfo", "noMembershipId", "ok"}

ActivityRecords(periods) == [id : ActivityIds, period : periods]

SeqsUpTo(S, n) == UNION {[1..k -> S] : k \in 0..n}

\* the responses to Stats/Activities with at most n activities; only a
\* 'Response' that carries 'activities' has any
ActivityResponses(periods, n) ==
    { [ErrorStatus |-> e, Response |-> "activities", activities |-> a] :
        e \in ErrorStatuses, a \in SeqsUpTo(ActivityRecords(periods), n) }
    \cup
    { [ErrorStatus |-> e, Response |-> r, activities |-> <<>>] :
        e \in ErrorStatuses, r \in ResponseShapes \ {"activities"} }

\* an entry of a PostGameCarnageReport: its identity, or the level missing
RosterEntries ==
    {[shape |-> "ok", id |-> p] : p \in PlayerIds}
      \cup {[shape |-> s, id |-> Stranger] : s \in EntryShapes \ {"ok"}}

\* ------------------------------------------------------------ dict helpers
Keys(d) == {d[i].id : i \in DOMAIN d}

\* d[k] = v on an insertion-ordered dict
DictPut(d, k, v) ==
    IF k \in Keys(d)
    THEN [i \in DOMAIN d |-> IF d[i].id = k THEN [id |-> k, period |-> v] ELSE d[i]]
    ELSE Append(d, [id |-> k, period |-> v])

RECURSIVE DictUpdateFrom(_, _, _)
DictUpdateFrom(d, e, i) ==
    IF i > Len(e) THEN d
    ELSE DictUpdateFrom(DictPut(d, e[i].id, e[i].period), e, i + 1)

\* d.update(e)
DictUpdate(d, e) == DictUpdateFrom(d, e, 1)

Occurrences(s, x) == Cardinality({i \in DOMAIN s : s[i] = x})

\* ---------------------------------------------- Character.recent_activities
\* (datetime.now() - activity_timestamp).days
AgeDays(period) == (Now - period) \div HalfDaysPerDay

\* line 214 with < for <=
Relevant_Strict(period, relevant_days) == AgeDays(period) < relevant_days

\* the comparison of line 214
Relevant(period, relevant_days) == AgeDays(period) <= relevant_days

RECURSIVE FilterActivities(_, _, _, _)
FilterActivities(acts, relevant_days, i, out) ==
    IF i > Len(acts) THEN out
    ELSE FilterActivities(acts, relevant_days, i + 1,
            IF Relevant(acts[i].period, relevant_days)
            THEN DictPut(out, acts[i].id, acts[i].period)
            ELSE out)

\* line 196 never taken: the request goes out whatever the flag says
SkipsFetch_Never(priv) == FALSE

\* line 196: a call that finds the member private returns before the request
SkipsFetch(priv) == priv

\* the value of member.private after the response was handled (203-205)
PrivateAfter(priv, resp) ==
    priv \/ resp.ErrorStatus = "DestinyPrivacyRestriction"

\* the mapping returned once the response arrived (208-217)
ActivitiesReturned(resp, relevant_days) ==
    IF resp.Response = "activities"
    THEN FilterActivities(resp.activities, relevant_days, 1, <<>>)
    ELSE <<>>

\* ---------------------------------------------- Member.players_in_activity
\* tqdm.write is handed entry['player'], a mapping: writeOk says whether the
\* library accepts it or raises on the non-string argument
RECURSIVE PlayersLoop(_, _, _, _)
PlayersLoop(entries, i, acc, writeOk) ==
    IF i > Len(entries) THEN [raised |-> "none", players |-> acc]
    ELSE IF entries[i].shape = "ok"
         THEN PlayersLoop(entries, i + 1, Append(acc, entries[i].id), writeOk)
    ELSE IF entries[i].shape = "noPlayer"
         THEN [raised |-> "KeyError", players |-> <<>>]
    ELSE IF writeOk
         THEN PlayersLoop(entries, i + 1, acc, writeOk)
    ELSE [raised |-> "TypeError", players |-> <<>>]

PlayersInActivity(entries, writeOk) == PlayersLoop(entries, 1, <<>>, writeOk)

\* ------------------------------------------------ Member.recent_clanmates
EmptyRelationships == [x \in {} |-> [display_name |-> DisplayName(Stranger), times_played |-> 0]]

\* a new entry created with a zero counter
Bump_FromZero(rel, k, name) ==
    [x \in DOMAIN rel \cup {k} |->
        IF x = k
        THEN IF k \in DOMAIN rel
             THEN [rel[k] EXCEPT !.times_played = @ + 1]
             ELSE [display_name |-> name, times_played |-> 0]
        ELSE rel[x]]

\* the increment without its else: a new entry is created and incremented
Bump_NoElse(rel, k, name) ==
    [x \in DOMAIN rel \cup {k} |->
        IF x = k
        THEN [display_name |-> IF k \in DOMAIN rel THEN rel[k].display_name ELSE name,
              times_played |-> (IF k \in DOMAIN rel THEN rel[k].times_played ELSE 1) + 1]
        ELSE rel[x]]

\* rel[k] = {display_name, times_played: 1} or rel[k]['times_played'] += 1
Bump(rel, k, name) ==
    IF k \in DOMAIN rel
    THEN [rel EXCEPT ![k].times_played = @ + 1]
    ELSE [x \in DOMAIN rel \cup {k} |->
            IF x = k THEN [display_name |-> name, times_played |-> 1] ELSE rel[x]]

\* lines 163-171 left out: nothing is written for a private clanmate
CountOne_NoInference(rels, priv, self, p, glob) ==
    IF p = self THEN rels
    ELSE IF p \notin Members THEN rels
    ELSE [rels EXCEPT ![self] = Bump(@, p, DisplayName(p))]

\* line 173 as the else of line 163: a private clanmate is not counted in
\* the member's own map
CountOne_PrivateNotCounted(rels, priv, self, p, glob) ==
    IF p = self THEN rels
    ELSE IF p \notin Members THEN rels
    ELSE IF priv[p]
         THEN [rels EXCEPT ![p] = Bump(@, self, DisplayName(glob))]
         ELSE [rels EXCEPT ![self] = Bump(@, p, DisplayName(p))]

\* lines 158-159 left out: the member's own id is counted like any other
CountOne_NoSelfCheck(rels, priv, self, p, glob) ==
    IF p \notin Members THEN rels
    ELSE LET inferred ==
                 IF priv[p] /\ p # self
                 THEN [rels EXCEPT ![p] = Bump(@, self, DisplayName(glob))]
                 ELSE rels
         IN  [inferred EXCEPT ![self] = Bump(@, p, DisplayName(p))]

\* line 171 left out: an inferred entry is created but never incremented
CountOne_InferOnce(rels, priv, self, p, glob) ==
    IF p = self THEN rels
    ELSE IF p \notin Members THEN rels
    ELSE LET inferred ==
                 IF priv[p] /\ self \notin DOMAIN rels[p]
                 THEN [rels EXCEPT ![p] = Bump(@, self, DisplayName(glob))]
                 ELSE rels
         IN  [inferred EXCEPT ![self] = Bump(@, p, DisplayName(p))]

\* the inferred entry named after the private member it is written for
CountOne_NameOfOwner(rels, priv, self, p, glob) ==
    IF p = self THEN rels
    ELSE IF p \notin Members THEN rels
    ELSE LET inferred == IF priv[p]
                         THEN [rels EXCEPT ![p] = Bump(@, self, DisplayName(p))]
                         ELSE rels
         IN  [inferred EXCEPT ![self] = Bump(@, p, DisplayName(p))]

\* one iteration of the loop of lines 157-179 for self, on player p, with
\* the module-level name `member` bound to glob
CountOne(rels, priv, self, p, glob) ==
    IF p = self THEN rels
    ELSE IF p \notin Members THEN rels
    ELSE LET inferred ==
                 IF priv[p]
                 THEN [rels EXCEPT ![p] = Bump(@, self, DisplayName(glob))]
                 ELSE rels
         IN  [inferred EXCEPT ![self] = Bump(@, p, DisplayName(p))]

\* ------------------------------------------------------------------- state
VARIABLES
    pc,                   \* where the script is
    cur,                  \* the member the current loop of the script is at
    member,               \* the module-level name `member` (loops 264, 268, 279)
    relevant_days_arg,    \* args.relevant_days
    private,              \* Member.private
    characters,           \* Member.characters (the character ids)
    activities,           \* Member.activities
    recent_players,       \* Member.recent_players
    has_recent_players,   \* hasattr(member, "recent_players")
    player_relationships, \* Member.player_relationships
    batch,                \* the tasks of the batch_query in flight
    idx,                  \* position of the loop of line 157
    passes,               \* recent_clanmates calls completed, per member
    raised,               \* the exception that ended the script, or "none"
    fetch_failed,         \* the requests whose handling raised: stage, member, exception
    call,                 \* SpecUnit: the call made and its inputs
    ret                   \* SpecUnit: what the call returned

vars == <<pc, cur, member, relevant_days_arg, private, characters, activities,
          recent_players, has_recent_players, player_relationships, batch,
          idx, passes, raised, fetch_failed, call, ret>>

unitVars == <<call, ret>>

NoCall == [fn |-> "none"]

NoRet == [st |-> "none"]

Task(st, acts, players) == [st |-> st, acts |-> acts, players |-> players]

\* the batch handed back as soon as one task has its result
AllDone_FirstCompleted == batch = <<>> \/ \E i \in DOMAIN batch : batch[i].st = "done"

\* Line 47: gather returns once every task of the batch has its result
AllDone == \A i \in DOMAIN batch : batch[i].st = "done"

RECURSIVE SumLen(_, _)
SumLen(f, S) ==
    IF S = {} THEN 0
    ELSE LET x == CHOOSE y \in S : TRUE IN Len(f[x]) + SumLen(f, S \ {x})

\* the activities kept so far in the run, and the participants extracted
KeptActivities ==
    SumLen(activities, Members) + SumLen([i \in DOMAIN batch |-> batch[i].acts], DOMAIN batch)

KeptPlayers ==
    SumLen(recent_players, Members) + SumLen([i \in DOMAIN batch |-> batch[i].players], DOMAIN batch)

\* the state the script is in when Clan.get_members starts its loop
RunInit ==
    /\ pc = "get_members"
    /\ cur = 1
    /\ member = 1
    /\ relevant_days_arg \in RelevantDaysArgs
    /\ private = [m \in Members |-> FALSE]
    /\ characters = [m \in Members |-> {}]
    /\ activities = [m \in Members |-> <<>>]
    /\ recent_players = [m \in Members |-> <<>>]
    /\ has_recent_players = [m \in Members |-> FALSE]
    /\ player_relationships = [m \in Members |-> EmptyRelationships]
    /\ batch = <<>>
    /\ idx = 1
    /\ passes = [m \in Members |-> 0]
    /\ raised = "none"
    /\ fetch_failed = {}

Init ==
    /\ RunInit
    /\ call = NoCall
    /\ ret = NoRet

\* an exception leaves the script: nothing runs after it
Crash(exc, stage) ==
    /\ pc' = "crashed"
    /\ raised' = exc
    /\ fetch_failed' = fetch_failed \cup {[stage |-> stage, member |-> cur, exc |-> exc]}

\* ------------------------------------- Clan.get_members / Member.__init__
\* One iteration of the loop of line 76: Member(...) is built, its profile
\* fetched by get_characters.  The profile names the visibility and the
\* character ids; a response without that payload, or no response at all,
\* raises out of get_characters, Member.__init__, get_members and Clan().
GetMember ==
    /\ pc = "get_members"
    /\ cur \in Members
    /\ \/ \E isPublic \in BOOLEAN, n \in 0..MaxChars :
            /\ private' = [private EXCEPT ![cur] = ~isPublic]
            /\ characters' = [characters EXCEPT ![cur] = 1..n]
            /\ IF cur = NumMembers
               THEN pc' = "collect" /\ cur' = 1
               ELSE pc' = pc /\ cur' = cur + 1
            /\ UNCHANGED <<raised, fetch_failed>>
       \/ \E exc \in {"KeyError", "TerminalError"} :
            /\ Crash(exc, "get_characters")
            /\ UNCHANGED <<private, characters, cur>>
    /\ UNCHANGED <<member, relevant_days_arg, activities, recent_players,
                   has_recent_players, player_relationships, batch, idx,
                   passes, unitVars>>

\* ---------------------------------- Member.recent_players_and_activities
\* Lines 264-265 and 138-142: the loop binds `member`, the call resets the
\* two attributes and batch_query starts one recent_activities per
\* character.  Each task runs to its first await: a task of a member
\* already private returns {} at once, the others have their request out.
\* The script passes no arguments: relevant_days is the default.
BeginActivities ==
    /\ pc = "collect"
    /\ cur \in Members
    /\ member' = cur
    /\ activities' = [activities EXCEPT ![cur] = <<>>]
    /\ recent_players' = [recent_players EXCEPT ![cur] = <<>>]
    /\ has_recent_players' = [has_recent_players EXCEPT ![cur] = TRUE]
    /\ batch' = [c \in 1..Cardinality(characters[cur]) |->
                   Task(IF SkipsFetch(private[cur]) THEN "done" ELSE "waiting", <<>>, <<>>)]
    /\ pc' = "activities"
    /\ UNCHANGED <<cur, relevant_days_arg, private, characters,
                   player_relationships, idx, passes, raised, fetch_failed,
                   unitVars>>

\* The request of one recent_activities task resolves (199-217), or
\* async_send gives up, which gather hands to batch_query's caller.
ActivityResponse ==
    /\ pc = "activities"
    /\ \E i \in DOMAIN batch :
        /\ batch[i].st = "waiting"
        /\ \/ \E resp \in ActivityResponses(RunPeriods, MaxActs) :
                /\ KeptActivities + Len(ActivitiesReturned(resp, DefaultRelevantDays))
                       <= MaxRunActivities
                /\ private' = [private EXCEPT ![cur] = PrivateAfter(@, resp)]
                /\ batch' = [batch EXCEPT ![i] =
                       Task("done", ActivitiesReturned(resp, DefaultRelevantDays), <<>>)]
                /\ UNCHANGED <<pc, raised, fetch_failed>>
           \/ /\ Crash("TerminalError", "recent_activities")
              /\ UNCHANGED <<private, batch>>
    /\ UNCHANGED <<cur, member, relevant_days_arg, characters, activities,
                   recent_players, has_recent_players, player_relationships,
                   idx, passes, unitVars>>

\* the results merged from the last character back to the first
RECURSIVE UpdateAll_Reversed(_, _, _)
UpdateAll_Reversed(d, tasks, i) ==
    IF i > Len(tasks) THEN d
    ELSE DictUpdate(UpdateAll_Reversed(d, tasks, i + 1), tasks[i].acts)

RECURSIVE UpdateAll(_, _, _)
UpdateAll(d, tasks, i) ==
    IF i > Len(tasks) THEN d
    ELSE UpdateAll(DictUpdate(d, tasks[i].acts), tasks, i + 1)

\* Lines 142-146: gather returned, the results are merged in the order of
\* the characters, and batch_query starts one players_in_activity per
\* activity of the window, each with its request out.
BeginRosters ==
    /\ pc = "activities"
    /\ AllDone
    /\ LET window == UpdateAll(activities[cur], batch, 1) IN
        /\ activities' = [activities EXCEPT ![cur] = window]
        /\ batch' = [a \in 1..Len(window) |-> Task("waiting", <<>>, <<>>)]
    /\ pc' = "rosters"
    /\ UNCHANGED <<cur, member, relevant_days_arg, private, characters,
                   recent_players, has_recent_players, player_relationships,
                   idx, passes, raised, fetch_failed, unitVars>>

\* The request of one players_in_activity task resolves (119-128), or
\* async_send gives up, or the loop over the entries raises.
RosterResponse ==
    /\ pc = "rosters"
    /\ \E i \in DOMAIN batch :
        /\ batch[i].st = "waiting"
        /\ \/ \E entries \in SeqsUpTo(RosterEntries, MaxRoster), writeOk \in BOOLEAN :
                LET out == PlayersInActivity(entries, writeOk) IN
                IF out.raised = "none"
                THEN /\ KeptPlayers + Len(out.players) <= MaxRunPlayers
                     /\ batch' = [batch EXCEPT ![i] = Task("done", <<>>, out.players)]
                     /\ UNCHANGED <<pc, raised, fetch_failed>>
                ELSE /\ Crash(out.raised, "players_in_activity")
                     /\ UNCHANGED batch
           \/ /\ Crash("TerminalError", "players_in_activity")
              /\ UNCHANGED batch
    /\ UNCHANGED <<cur, member, relevant_days_arg, private, characters,
                   activities, recent_players, has_recent_players,
                   player_relationships, idx, passes, unitVars>>

RECURSIVE ConcatAll(_, _, _)
ConcatAll(acc, tasks, i) ==
    IF i > Len(tasks) THEN acc
    ELSE ConcatAll(acc \o tasks[i].players, tasks, i + 1)

\* the counting loop entered after each member's collection
CollectionLoopDone_Interleaved(c) == TRUE

\* Line 264: the loop over bcg.members ends after the last member; only then
\* does control reach the loop of line 268.
CollectionLoopDone(c) == c = NumMembers

\* Lines 146-147, then the next iteration of the loop of line 264.
EndRosters ==
    /\ pc = "rosters"
    /\ AllDone
    /\ recent_players' = [recent_players EXCEPT ![cur] = ConcatAll(@, batch, 1)]
    /\ batch' = <<>>
    /\ IF CollectionLoopDone(cur)
       THEN pc' = "count" /\ cur' = 1
       ELSE pc' = "collect" /\ cur' = cur + 1
    /\ UNCHANGED <<member, relevant_days_arg, private, characters, activities,
                   has_recent_players, player_relationships, idx, passes,
                   raised, fetch_failed, unitVars>>

\* ------------------------------------------------- the loop of line 268
\* A private member is skipped; for the others recent_clanmates is called.
\* recent_players exists for every member by now, so line 155 is not taken.
\* After the last member the loop of line 279 only prints.
NextToCount ==
    /\ pc = "count"
    /\ IF cur \notin Members
       THEN /\ pc' = "done"
            /\ UNCHANGED <<cur, member, idx>>
       ELSE /\ member' = cur
            /\ IF private[cur]
               THEN /\ cur' = cur + 1
                    /\ UNCHANGED <<pc, idx>>
               ELSE /\ has_recent_players[cur]
                    /\ pc' = "clanmates"
                    /\ idx' = 1
                    /\ UNCHANGED cur
    /\ UNCHANGED <<relevant_days_arg, private, characters, activities,
                   recent_players, has_recent_players, player_relationships,
                   batch, passes, raised, fetch_failed, unitVars>>

\* One iteration of the loop of line 157, or its end and the return.
ClanmatesStep(at, back) ==
    /\ pc = at
    /\ IF idx <= Len(recent_players[cur])
       THEN /\ player_relationships' =
                  CountOne(player_relationships, private, cur,
                           recent_players[cur][idx], member)
            /\ idx' = idx + 1
            /\ UNCHANGED <<pc, cur, passes>>
       ELSE /\ passes' = [passes EXCEPT ![cur] = @ + 1]
            /\ pc' = back
            /\ cur' = IF back = "count" THEN cur + 1 ELSE cur
            /\ idx' = 1
            /\ UNCHANGED player_relationships
    /\ UNCHANGED <<member, relevant_days_arg, private, characters, activities,
                   recent_players, has_recent_players, batch, raised,
                   fetch_failed, unitVars>>

RecentClanmates == ClanmatesStep("clanmates", "count")

Next ==
    \/ GetMember
    \/ BeginActivities
    \/ ActivityResponse
    \/ BeginRosters
    \/ RosterResponse
    \/ EndRosters
    \/ NextToCount
    \/ RecentClanmates

Spec == Init /\ [][Next]_vars

\* ------------------------------------------------------------- SpecCount
\* The states in which the loop of line 264 hands over to the loop of line
\* 268: every member constructed and collected.  The counting passes read
\* private, recent_players and `member` only, and these take every value
\* within the bounds; each member's window is the fewest activities
\* whose rosters give its recent_players.  (A private member with a
\* non-empty list is one whose flag was flipped by a response during its
\* own collection.)
WindowFor(players) ==
    [i \in 1..((Len(players) + MaxRoster - 1) \div MaxRoster) |->
        [id |-> i, period |-> Now]]

\* the ways to cut the sequence s into one list per member
Splits(s) ==
    LET cuts == {c \in [Members -> 0..Len(s)] :
                    /\ c[NumMembers] = Len(s)
                    /\ \A m \in Members \ {1} : c[m - 1] <= c[m]}
    IN  {[m \in Members |-> SubSeq(s, IF m = 1 THEN 1 ELSE c[m - 1] + 1, c[m])] :
            c \in cuts}

\* the recent_players lists a collection leaves: MaxCountPlayers
\* participants at most, over all members
CollectedPlayers == UNION {Splits(s) : s \in SeqsUpTo(PlayerIds, MaxCountPlayers)}

CountInit ==
    /\ pc = "count"
    /\ cur = 1
    /\ member = NumMembers
    /\ relevant_days_arg = DefaultRelevantDays
    /\ recent_players \in CollectedPlayers
    /\ activities = [m \in Members |-> WindowFor(recent_players[m])]
    /\ \A m \in Members : Len(activities[m]) <= MaxActs
    /\ SumLen(activities, Members) <= MaxRunActivities
    /\ private \in [Members -> BOOLEAN]
    /\ characters = [m \in Members |-> 1..MaxChars]
    /\ has_recent_players = [m \in Members |-> TRUE]
    /\ player_relationships = [m \in Members |-> EmptyRelationships]
    /\ batch = <<>>
    /\ idx = 1
    /\ passes = [m \in Members |-> 0]
    /\ raised = "none"
    /\ fetch_failed = {}
    /\ call = NoCall
    /\ ret = NoRet

NextCount ==
    \/ NextToCount
    \/ RecentClanmates

SpecCount == CountInit /\ [][NextCount]_vars

\* ------------------------------------------------------------- SpecTwice
\* After the script's loops, recent_clanmates is called once more on a
\* member it was already called on.  recent_players exists, so line 155 is
\* not taken and the loop of line 157 runs over the same list.
Reinvoke ==
    /\ pc = "done"
    /\ \E m \in Members :
        /\ passes[m] >= 1
        /\ passes[m] < MaxPasses
        /\ has_recent_players[m]
        /\ cur' = m
    /\ pc' = "clanmates_again"
    /\ idx' = 1
    /\ UNCHANGED <<member, relevant_days_arg, private, characters, activities,
                   recent_players, has_recent_players, player_relationships,
                   batch, passes, raised, fetch_failed, unitVars>>

RecentClanmatesAgain == ClanmatesStep("clanmates_again", "done")

NextTwice ==
    \/ NextToCount
    \/ RecentClanmates
    \/ Reinvoke
    \/ RecentClanmatesAgain

SpecTwice == CountInit /\ [][NextTwice]_vars

\* -------------------------------------------------------------- SpecUnit
\* One call of recent_activities on a character of member 1, or one call
\* of players_in_activity, with the response the request resolves to.
UnitPeriods == (Now - HalfDaysPerDay * (MaxUnitDays + 1))..(Now + 1)

UnitOwner == 1

UnitCall(fn, resp, days, entries, writeOk) ==
    [fn |-> fn, resp |-> resp, relevant_days |-> days, entries |-> entries,
     writeOk |-> writeOk]

NoResponse == [ErrorStatus |-> "absent", Response |-> "absent", activities |-> <<>>]

UnitCalls ==
    {UnitCall("recent_activities", resp, r, <<>>, TRUE) :
        resp \in ActivityResponses(UnitPeriods, MaxUnitActs),
        r \in 0..MaxUnitDays}
    \cup
    {UnitCall("players_in_activity", NoResponse, 0, entries, w) :
        entries \in SeqsUpTo(RosterEntries, MaxRoster), w \in BOOLEAN}

UnitRet(fetched, exc, acts, players) ==
    [st |-> "returned", fetched |-> fetched, raised |-> exc, acts |-> acts,
     players |-> players]

UnitInit ==
    /\ pc = "unit"
    /\ cur = UnitOwner
    /\ member = UnitOwner
    /\ relevant_days_arg = DefaultRelevantDays
    /\ private \in {f \in [Members -> BOOLEAN] : \A m \in Members \ {UnitOwner} : ~f[m]}
    /\ characters = [m \in Members |-> IF m = UnitOwner THEN {1} ELSE {}]
    /\ activities = [m \in Members |-> <<>>]
    /\ recent_players = [m \in Members |-> <<>>]
    /\ has_recent_players = [m \in Members |-> FALSE]
    /\ player_relationships = [m \in Members |-> EmptyRelationships]
    /\ batch = <<>>
    /\ idx = 1
    /\ passes = [m \in Members |-> 0]
    /\ raised = "none"
    /\ fetch_failed = {}
    /\ call \in UnitCalls
    /\ call.fn = "recent_activities" /\ private[UnitOwner] => call.resp = NoResponse
    /\ call.fn = "players_in_activity" => ~private[UnitOwner]
    /\ ret = NoRet

\* Character.recent_activities, lines 195-217
CallRecentActivities ==
    /\ pc = "unit"
    /\ call.fn = "recent_activities"
    /\ ret = NoRet
    /\ IF SkipsFetch(private[UnitOwner])
       THEN /\ ret' = UnitRet(FALSE, "none", <<>>, <<>>)
            /\ UNCHANGED private
       ELSE /\ private' = [private EXCEPT ![UnitOwner] = PrivateAfter(@, call.resp)]
            /\ ret' = UnitRet(TRUE, "none",
                              ActivitiesReturned(call.resp, call.relevant_days), <<>>)
    /\ UNCHANGED <<pc, cur, member, relevant_days_arg, characters, activities,
                   recent_players, has_recent_players, player_relationships,
                   batch, idx, passes, raised, fetch_failed, call>>

\* Member.players_in_activity, lines 119-128
CallPlayersInActivity ==
    /\ pc = "unit"
    /\ call.fn = "players_in_activity"
    /\ ret = NoRet
    /\ LET out == PlayersInActivity(call.entries, call.writeOk) IN
         ret' = UnitRet(TRUE, out.raised, <<>>, out.players)
    /\ UNCHANGED <<pc, cur, member, relevant_days_arg, private, characters,
                   activities, recent_players, has_recent_players,
                   player_relationships, batch, idx, passes, raised,
                   fetch_failed, call>>

NextUnit ==
    \/ CallRecentActivities
    \/ CallPlayersInActivity

SpecUnit == UnitInit /\ [][NextUnit]_vars
\* -------------------------------------------------------------- SpecSend
\* One call of BungieApi.async_send(path, retries): `call` holds the
\* arguments, `ret` the innermost frame of the recursion: the budget left,
\* the requests made so far and how the call ended.  A response either
\* parses as JSON or raises ContentTypeError; other failures of the request
\* leave the function at once and are not retried.
Paths == 1..MaxPaths

JsonBodies == 1..MaxBodies

SendCall(path, retries) == [fn |-> "async_send", path |-> path, retries |-> retries]

SendFrame(st, retries, attempts, data, exc) ==
    [st |-> st, retries |-> retries, attempts |-> attempts, data |-> data,
     raised |-> exc]

NoData == 0

\* one retry too many
RetriesLeft_Inclusive(retries) == retries >= 0

\* line 31
RetriesLeft(retries) == retries > 0

\* the default budget, or the budget of one of the recursive calls
SendInit ==
    /\ pc = "send"
    /\ cur = 1
    /\ member = 1
    /\ relevant_days_arg = DefaultRelevantDays
    /\ private = [m \in Members |-> FALSE]
    /\ characters = [m \in Members |-> {}]
    /\ activities = [m \in Members |-> <<>>]
    /\ recent_players = [m \in Members |-> <<>>]
    /\ has_recent_players = [m \in Members |-> FALSE]
    /\ player_relationships = [m \in Members |-> EmptyRelationships]
    /\ batch = <<>>
    /\ idx = 1
    /\ passes = [m \in Members |-> 0]
    /\ raised = "none"
    /\ fetch_failed = {}
    /\ call \in {SendCall(path, r) : path \in Paths, r \in 0..DefaultRetries}
    /\ ret = SendFrame("ready", call.retries, 0, NoData, "none")

\* Lines 25-30: the request is made and response.json() returns the data,
\* which every frame of the recursion hands back, or raises ContentTypeError.
SendAttempt ==
    /\ pc = "send"
    /\ ret.st = "ready"
    /\ \/ \E body \in JsonBodies :
            ret' = SendFrame("returned", ret.retries, ret.attempts + 1,
                             <<call.path, body>>, "none")
       \/ ret' = SendFrame("ContentTypeError", ret.retries, ret.attempts + 1,
                           NoData, "none")
    /\ UNCHANGED <<pc, cur, member, relevant_days_arg, private, characters,
                   activities, recent_players, has_recent_players,
                   player_relationships, batch, idx, passes, raised,
                   fetch_failed, call>>

\* Lines 31-33: the sleep, then the recursive call with one retry less.
SendRetry ==
    /\ pc = "send"
    /\ ret.st = "ContentTypeError"
    /\ RetriesLeft(ret.retries)
    /\ ret' = SendFrame("ready", ret.retries - 1, ret.attempts, NoData, "none")
    /\ UNCHANGED <<pc, cur, member, relevant_days_arg, private, characters,
                   activities, recent_players, has_recent_players,
                   player_relationships, batch, idx, passes, raised,
                   fetch_failed, call>>

\* Lines 35-36: print returns None and awaiting None raises TypeError, so
\* the ValueError of line 36 is never reached; the exception leaves every
\* frame of the recursion.
SendGiveUp ==
    /\ pc = "send"
    /\ ret.st = "ContentTypeError"
    /\ ~RetriesLeft(ret.retries)
    /\ ret' = SendFrame("raised", ret.retries, ret.attempts, NoData, "TypeError")
    /\ UNCHANGED <<pc, cur, member, relevant_days_arg, private, characters,
                   activities, recent_players, has_recent_players,
                   player_relationships, batch, idx, passes, raised,
                   fetch_failed, call>>

NextSend ==
    \/ SendAttempt
    \/ SendRetry
    \/ SendGiveUp

SpecSend == SendInit /\ [][NextSend]_vars



\* =================================================================== claims
Rel(m) == player_relationships[m]

\* C1 (SpecCount): inference symmetry.  At the end of the run, if A is not
\* private, B # A is a private clan member and B's id occurs in A's
\* recent_players, then B.player_relationships has an entry for A with
\* times_played >= 1.
C1_InferenceSymmetry ==
    pc = "done" =>
        \A A \in Members, B \in Members :
            (A # B /\ ~private[A] /\ private[B]
                   /\ Occurrences(recent_players[A], B) > 0)
            => (A \in DOMAIN Rel(B) /\ Rel(B)[A].times_played >= 1)

C1_Witness ==
    /\ pc = "done"
    /\ \E A \in Members, B \in Members :
          /\ A # B /\ ~private[A] /\ private[B]
          /\ Occurrences(recent_players[A], B) > 0
          /\ passes[A] = 1
          /\ A \in DOMAIN Rel(B)

\* C2 (SpecTwice): idempotence guard.  A second invocation of
\* recent_clanmates over the same recent_players changes no entry of any
\* member's player_relationships.
C2_SecondPassGuarded ==
    [][pc = "clanmates_again" => player_relationships' = player_relationships]_vars

\* C3 (SpecCount): exact co-play count.  Once the counting pass has run once
\* for a non-private member M, M.player_relationships has an entry for p
\* exactly when p is a clan member other than M occurring in
\* M.recent_players, and the entry's times_played is the number of
\* occurrences of p, private or not.
C3_ExactCoPlayCount ==
    \A M \in Members :
        (passes[M] = 1 /\ ~private[M]) =>
            \A p \in PlayerIds :
                LET n == Occurrences(recent_players[M], p) IN
                /\ (p \in DOMAIN Rel(M)) <=> (p \in Members /\ p # M /\ n > 0)
                /\ (p \in DOMAIN Rel(M)) => Rel(M)[p].times_played = n

C3_Witness ==
    \E M \in Members, p \in Members :
        /\ passes[M] = 1 /\ ~private[M] /\ private[p] /\ p # M
        /\ Occurrences(recent_players[M], p) = 2
        /\ Occurrences(recent_players[M], Stranger) = 1
        /\ p \in DOMAIN Rel(M)

\* C4 (SpecCount): self-exclusion.  In every state, the
\* player_relationships of a member not flagged private has no entry keyed
\* by the member's own id, also when that id occurs in its recent_players.
C4_SelfExclusion ==
    \A M \in Members : ~private[M] => M \notin DOMAIN Rel(M)

C4_Witness ==
    \E M \in Members :
        /\ ~private[M] /\ passes[M] = 1
        /\ Occurrences(recent_players[M], M) > 0
        /\ DOMAIN Rel(M) # {}

\* C5 (Spec): profile-fetch failure is a fail-safe.  If the profile fetch
\* of member D fails, no exception reaches the caller and D is left with no
\* characters, no activities and no relationships.
C5_ProfileFailureFailSafe ==
    \A f \in fetch_failed :
        f.stage = "get_characters" =>
            /\ raised = "none"
            /\ characters[f.member] = {}
            /\ activities[f.member] = <<>>
            /\ Rel(f.member) = EmptyRelationships

\* C6 (Spec): retry exhaustion is local.  When one request of a batch (an
\* activity fetch or a roster fetch) ends in the terminal error, the run is
\* not ended by it: the batch completes and the script goes on.
C6_RetryExhaustionLocal ==
    \A f \in fetch_failed :
        (f.stage \in {"recent_activities", "players_in_activity"}
            /\ f.exc = "TerminalError")
        => (raised = "none" /\ pc # "crashed")

\* the ids of the entries that carry the identity field, in order
ValidIds(entries) ==
    LET ok(e) == e.shape = "ok"
        kept == SelectSeq(entries, ok)
    IN  [i \in DOMAIN kept |-> kept[i].id]

\* C7 (SpecUnit): malformed participant tolerance.  players_in_activity
\* returns the ids of the entries that carry the identity field, in order,
\* and raises nothing, whichever level of an entry is missing.
C7_MalformedParticipantTolerance ==
    (call.fn = "players_in_activity" /\ ret # NoRet) =>
        (ret.raised = "none" /\ ret.players = ValidIds(call.entries))

\* C8 (Spec): roster fan-out bounded by the configured window.  No roster
\* fetch is in flight for an activity older than args.relevant_days.
C8_RosterFanOutBounded ==
    pc = "rosters" =>
        \A i \in DOMAIN activities[cur] :
            Now - activities[cur][i].period < (relevant_days_arg + 1) * HalfDaysPerDay

\* the age in whole days is at most r: less than r + 1 days have passed
WithinDays(period, r) == Now - period < (r + 1) * HalfDaysPerDay

\* C9 (SpecUnit): activity filtering.  recent_activities(relevant_days = r)
\* returns exactly the activities of the response that are at most r whole
\* days old; none older than r days is returned.
C9_ActivityFiltering ==
    (call.fn = "recent_activities" /\ ret # NoRet /\ ret.fetched) =>
        LET acts == call.resp.activities
            r == call.relevant_days
        IN  /\ Keys(ret.acts) =
                  {acts[i].id : i \in {j \in DOMAIN acts : WithinDays(acts[j].period, r)}}
            /\ \A k \in DOMAIN ret.acts :
                  /\ WithinDays(ret.acts[k].period, r)
                  /\ \E i \in DOMAIN acts : acts[i] = ret.acts[k]
            /\ \A k, l \in DOMAIN ret.acts : ret.acts[k].id = ret.acts[l].id => k = l

C9_Witness ==
    /\ call.fn = "recent_activities" /\ ret # NoRet /\ ret.fetched
    /\ Len(call.resp.activities) = 2
    /\ Len(ret.acts) = 1
    /\ call.resp.activities[1].id # call.resp.activities[2].id
    /\ \E i \in DOMAIN call.resp.activities :
          ~WithinDays(call.resp.activities[i].period, call.relevant_days)

\* C10 (SpecUnit): visibility-restriction signal.  A response carrying
\* ErrorStatus = DestinyPrivacyRestriction makes the call set the member's
\* private flag, raise nothing and return an empty mapping, whatever else
\* the response contains.
C10_VisibilityRestrictionSignal ==
    (call.fn = "recent_activities" /\ ret # NoRet /\ ret.fetched
        /\ call.resp.ErrorStatus = "DestinyPrivacyRestriction")
    => (private[UnitOwner] /\ ret.raised = "none" /\ ret.acts = <<>>)

\* C11 (SpecUnit): skip when private.  A call of recent_activities that
\* starts while the member's private flag is set issues no request and
\* returns an empty mapping; in a run, the batch started for a member that
\* is private has no request out and only empty results.
C11_SkipWhenPrivate ==
    [][/\ (pc = "unit" /\ call.fn = "recent_activities" /\ ret = NoRet
              /\ private[UnitOwner] /\ ret' # NoRet)
          => (~ret'.fetched /\ ret'.acts = <<>> /\ ret'.raised = "none")
       /\ (pc = "collect" /\ private[cur] /\ pc' = "activities")
          => \A i \in DOMAIN batch' :
                 batch'[i].st = "done" /\ batch'[i].acts = <<>>]_vars

C11_Witness ==
    /\ pc = "unit" /\ call.fn = "recent_activities"
    /\ private[UnitOwner] /\ ret # NoRet /\ ~ret.fetched

RECURSIVE SumOver(_, _)
SumOver(rel, S) ==
    IF S = {} THEN 0
    ELSE LET x == CHOOSE y \in S : TRUE
         IN  rel[x].times_played + SumOver(rel, S \ {x})

\* the sum of the times_played counters of member m
TimesPlayedSum(m) == SumOver(Rel(m), DOMAIN Rel(m))

\* C12 as stated (SpecCount): for every member, public or private, the sum
\* of its times_played counters is at most the length of its recent_players.
C12_CounterSumBound_AllMembers ==
    \A M \in Members : TimesPlayedSum(M) <= Len(recent_players[M])

\* C12 as amended (SpecCount): for every member not flagged private, the sum
\* of its times_played counters is at most the length of its recent_players.
C12_CounterSumBound ==
    \A M \in Members :
        ~private[M] => TimesPlayedSum(M) <= Len(recent_players[M])

C12_Witness ==
    \E M \in Members :
        /\ ~private[M] /\ passes[M] = 1
        /\ TimesPlayedSum(M) = 2
        /\ Len(recent_players[M]) = 3

\* C13 (SpecCount): counter evolution. Every times_played counter is created
\* with value 1, every step leaves a counter unchanged or adds exactly 1 to
\* it, no step removes an entry, and every counter present is >= 1.
C13_CounterEvolution ==
    [][\A M \in Members :
          /\ DOMAIN player_relationships[M] \subseteq DOMAIN player_relationships'[M]
          /\ \A k \in DOMAIN player_relationships'[M] :
                LET after == player_relationships'[M][k].times_played
                IN  /\ after >= 1
                    /\ IF k \in DOMAIN player_relationships[M]
                       THEN after \in {player_relationships[M][k].times_played,
                                       player_relationships[M][k].times_played + 1}
                       ELSE after = 1]_vars

C13_Witness ==
    \E M \in Members : \E k \in DOMAIN Rel(M) :
        /\ pc = "clanmates" /\ cur = M
        /\ Rel(M)[k].times_played = 2

\* recent_players_and_activities of member m has been called and has returned
CollectionCompleted(m) ==
    /\ has_recent_players[m]
    /\ ~(cur = m /\ pc \in {"activities", "rosters", "crashed"})

CountingStarted == pc = "clanmates" \/ \E m \in Members : passes[m] > 0

\* C14 (Spec): collection before counting. No counting pass runs before the
\* collection of every member has completed, and once the first counting
\* pass has started no fetch is issued, no private flag changes and no
\* window or player list changes.
C14_CollectionBeforeCounting ==
    [][/\ pc = "clanmates" => \A m \in Members : CollectionCompleted(m)
       /\ CountingStarted =>
            /\ private' = private
            /\ activities' = activities
            /\ recent_players' = recent_players
            /\ batch' = <<>>
            /\ pc' \in {"count", "clanmates", "done"}]_vars

C14_Witness ==
    /\ pc = "clanmates" /\ idx > 1
    /\ \E m \in Members : m # cur /\ passes[m] = 1 /\ Len(recent_players[m]) > 0

\* C15 (Spec): stage ordering within a member. The roster fetches of a member
\* are issued only when the activity fetch of every one of its characters
\* has resolved, and they are one request per activity id of the completed
\* window (task a of the roster batch is for the a-th key), each id once;
\* no further fetch is issued while the rosters are collected.
C15_StageOrdering ==
    [][/\ (pc = "activities" /\ pc' = "rosters") =>
            /\ \A i \in DOMAIN batch : batch[i].st = "done"
            /\ Keys(activities'[cur]) =
                   UNION {Keys(batch[i].acts) : i \in DOMAIN batch}
            /\ Len(activities'[cur]) = Cardinality(Keys(activities'[cur]))
            /\ Len(batch') = Len(activities'[cur])
            /\ \A a \in DOMAIN batch' : batch'[a].st = "waiting"
       /\ (pc = "activities" /\ pc' = "activities") =>
            \A i \in DOMAIN batch' : batch'[i].players = <<>>
       /\ (pc = "rosters" /\ pc' = "rosters") =>
            /\ activities' = activities
            /\ Len(batch') = Len(batch)]_vars

C15_Witness ==
    /\ pc = "rosters"
    /\ Cardinality(characters[cur]) = 2
    /\ Len(batch) = 2
    /\ \E a \in DOMAIN batch : batch[a].st = "done"

\* d[k] for a key k of d
ValueAt(d, k) == d[CHOOSE i \in DOMAIN d : d[i].id = k].period

\* the last character, in enumeration order, whose result has activity id k
LastReporting(tasks, k) ==
    CHOOSE i \in DOMAIN tasks :
        /\ k \in Keys(tasks[i].acts)
        /\ \A j \in DOMAIN tasks : k \in Keys(tasks[j].acts) => j <= i

\* C16 (Spec): the window is the union of the characters' filtered results,
\* and an activity id reported by several characters keeps the timestamp of
\* the character latest in enumeration order, in whatever order the fetches
\* of the batch resolved.
C16_WindowUnionOrderIndependent ==
    [][(pc = "activities" /\ pc' = "rosters") =>
          /\ Keys(activities'[cur]) =
                 UNION {Keys(batch[i].acts) : i \in DOMAIN batch}
          /\ \A k \in Keys(activities'[cur]) :
                 ValueAt(activities'[cur], k) =
                     ValueAt(batch[LastReporting(batch, k)].acts, k)]_vars

C16_Witness ==
    /\ pc = "activities"
    /\ Len(batch) = 2
    /\ \A i \in DOMAIN batch : batch[i].st = "done"
    /\ \E k \in Keys(batch[1].acts) \cap Keys(batch[2].acts) :
           ValueAt(batch[1].acts, k) # ValueAt(batch[2].acts, k)

\* C17 (SpecCount): denormalized display name. Every entry
\* X.player_relationships[Y] is keyed by a member Y and carries the display
\* name of Y, whether X's own pass or Y's pass (for a private X) wrote it.
C17_DenormalizedDisplayName ==
    \A X \in Members : \A Y \in DOMAIN Rel(X) :
        /\ Y \in Members
        /\ Rel(X)[Y].display_name = DisplayName(Y)

C17_Witness ==
    /\ pc = "done"
    /\ \E X, Y \in Members :
        /\ private[X] /\ ~private[Y]
        /\ Y \in DOMAIN Rel(X) /\ X \in DOMAIN Rel(Y)

\* C18 (SpecSend): bounded retry. A call makes at most 1 + retries requests,
\* 6 with the default budget; a ContentTypeError with budget left leads to
\* exactly one further request with the budget reduced by 1; the data of the
\* first response that parses is returned and nothing follows; with the
\* budget exhausted the call ends by raising.
C18_BoundedRetry ==
    [][/\ ret'.attempts <= call.retries + 1
       /\ call.retries = DefaultRetries => ret'.attempts <= 6
       /\ ret'.attempts + ret'.retries \in {call.retries, call.retries + 1}
       /\ (ret.st = "ContentTypeError" /\ ret.retries > 0) =>
            /\ ret'.st = "ready"
            /\ ret'.retries = ret.retries - 1
            /\ ret'.attempts = ret.attempts
       /\ ret.st = "ready" =>
            /\ ret'.attempts = ret.attempts + 1
            /\ ret'.retries = ret.retries
            /\ ret'.st \in {"returned", "ContentTypeError"}
       /\ (ret.st = "ContentTypeError" /\ ret.retries = 0) =>
            /\ ret'.st = "raised"
            /\ ret'.raised # "none"
            /\ ret'.attempts = ret.attempts
       /\ ret.st \notin {"returned", "raised"}
       /\ ret'.st = "returned" => ret'.data[1] = call.path]_vars

C18_Witness ==
    /\ pc = "send"
    /\ call.retries = DefaultRetries
    /\ ret.st = "raised"
    /\ ret.attempts = 6

\* C19 (Spec): private implies empty window. Once the collection of a member
\* has completed, a member flagged private has an empty activity window and
\* an empty recent_players list, and no roster fetch is issued for a member
\* flagged private.
C19_PrivateImpliesEmptyWindow ==
    /\ \A m \in Members :
          (CollectionCompleted(m) /\ private[m]) =>
              (activities[m] = <<>> /\ recent_players[m] = <<>>)
    /\ (pc = "rosters" /\ private[cur]) => batch = <<>>

\* C20 (SpecCount): measured and inferred counts agree. At the end of the
\* run, for a private member P and a non-private member M, P has an entry
\* for M exactly when M has an entry for P, with equal times_played; and P
\* has no entry keyed by a private member.
C20_MeasuredAndInferredAgree ==
    pc = "done" =>
        \A P \in Members :
            private[P] =>
                /\ \A M \in Members :
                     ~private[M] =>
                        /\ (M \in DOMAIN Rel(P)) <=> (P \in DOMAIN Rel(M))
                        /\ (M \in DOMAIN Rel(P)) =>
                             Rel(P)[M].times_played = Rel(M)[P].times_played
                /\ \A Q \in DOMAIN Rel(P) : Q \in Members /\ ~private[Q]

C20_Witness ==
    /\ pc = "done"
    /\ \E P, M \in Members :
        /\ private[P] /\ ~private[M]
        /\ M \in DOMAIN Rel(P)
        /\ Rel(P)[M].times_played = 2
        /\ Rel(M)[P].times_played = 2

====
